---------------------------- MODULE Spec2Model ----------------------------
(***************************************************************************)
(* Model of the move-explanation services of ChesskitGPT:                  *)
(*   MoveExplainerService  (shouldExplainMove, explainMove,                *)
(*                          batchExplainMoves, parseResponse)              *)
(*   GameExplanationService (explainGame, buildExplanationRequests)        *)
(*   useGameExplanations    (generateExplanations, clearExplanations)      *)
(*                                                                         *)
(* Strings are modelled by what the code does with them: a text is a       *)
(* record naming its source and its length, so that slice(0, m) is a       *)
(* prefix of the same source of length Min(len, m).                        *)
(***************************************************************************)
EXTENDS Integers, Sequences, FiniteSets, TLC

VARIABLES
    settings,       \* MoveExplainerService.settings
    requests,       \* batchExplainMoves: the requests argument
    concurrency,    \* batchExplainMoves: the concurrency argument
    pc,             \* batchExplainMoves: position of the async function
    i,              \* batchExplainMoves: loop variable (0-based offset)
    results,        \* batchExplainMoves: results
    errors,         \* batchExplainMoves: errors
    completed,      \* batchExplainMoves: completed
    calls,          \* per request: state of its mapped async callback
    outcome,        \* per request: value its callback resolved with
    reply,          \* per request: the response its fetch() received
    httpCount,      \* per request: number of fetch() calls issued for it
    explainCalls,   \* per request: number of explainMove invocations
    settleOrder,    \* current window: its requests in the order they resolved
    snapshots,      \* the arguments onProgress has been invoked with
    pauses,         \* number of inter-window timers started
    policyCall,     \* one shouldExplainMove invocation: arguments and result
    parseCall,      \* one parseResponse invocation: arguments and result
    gameEval,       \* explainGame: gameEval.positions
    gpc,            \* explainGame: position of the async function
    gameExplanations, \* explainGame: the returned explanations map
    game,           \* useGameExplanations: gameAtom
    gameEvalAtom,   \* useGameExplanations: gameEvalAtom
    envKey,         \* process.env.NEXT_PUBLIC_OPENAI_API_KEY is set
    isGenerating,   \* useGameExplanations: useState isGenerating
    progress,       \* useGameExplanations: useState progress
    error,          \* useGameExplanations: useState error
    closureIsGenerating, \* isGenerating as captured by the
                    \* generateExplanations callback of the last render
    gameExplanationsAtom, \* useGameExplanations: gameExplanationsAtom
    runs,           \* the generateExplanations calls that reached explainGame
    invocation,     \* generateExplanations: number of calls so far, argument
                    \* of the last one, number of fetch() calls it issued
    settled,        \* the explainGame promise that settled last: its run,
                    \* its value, and the stored value it replaced
    stats           \* getExplanationStats: the returned statistics

serviceVars == <<settings, requests, concurrency, pc, i, results, errors,
                 completed, calls, outcome, reply, httpCount, explainCalls,
                 settleOrder, snapshots, pauses, policyCall, parseCall,
                 gameEval, gpc, gameExplanations>>

hookVars == <<game, gameEvalAtom, envKey, isGenerating, progress, error,
              closureIsGenerating, gameExplanationsAtom, runs, invocation,
              settled>>

vars == <<serviceVars, hookVars, stats>>

batchVars == <<requests, concurrency, pc, i, results, errors, completed,
               calls, outcome, reply, httpCount, explainCalls, settleOrder,
               snapshots, pauses>>

-----------------------------------------------------------------------------
(* Bounds of the model *)

MaxRequests == 5
MaxConcurrency == 3
MaxPly == 4
MaxInvocations == 2
MaxGames == 2

-----------------------------------------------------------------------------
(* Program constants *)

DefaultConcurrency == 3

DEFAULT_SETTINGS ==
    [maxLength |-> 150, explainExcellent |-> FALSE,
     explainOpening |-> FALSE, minEvalChange |-> 5]

MoveClassification ==
    {"Blunder", "Mistake", "Inaccuracy", "Okay", "Excellent", "Best",
     "Perfect", "Splendid", "Forced", "Opening"}

\* value of PositionEval.moveClassification when the field is absent
NoClassification == "undefined"

Abs(x) == IF x < 0 THEN -x ELSE x

Min(a, b) == IF a < b THEN a ELSE b

-----------------------------------------------------------------------------
(* MoveExplainerService.shouldExplainMove *)

\* bug variants of the policy, used to test the claims' formulas
shouldExplainMoveNoBest(s, classification, evalChange) ==
    IF classification \in {"Blunder", "Mistake", "Inaccuracy"} THEN TRUE
    ELSE IF classification \in {"Perfect", "Splendid"} THEN TRUE
    ELSE IF classification = "Excellent" /\ s.explainExcellent THEN TRUE
    ELSE IF classification = "Opening" /\ s.explainOpening THEN TRUE
    ELSE IF Abs(evalChange) >= s.minEvalChange THEN TRUE
    ELSE FALSE

shouldExplainMoveStrict(s, classification, evalChange) ==
    IF classification \in {"Blunder", "Mistake", "Inaccuracy"} THEN TRUE
    ELSE IF classification \in {"Perfect", "Splendid"} THEN TRUE
    ELSE IF classification = "Best" THEN TRUE
    ELSE IF classification = "Excellent" /\ s.explainExcellent THEN TRUE
    ELSE IF classification = "Opening" /\ s.explainOpening THEN TRUE
    ELSE IF Abs(evalChange) > s.minEvalChange THEN TRUE
    ELSE FALSE

shouldExplainMoveFirstMatch(s, classification, evalChange) ==
    IF classification \in {"Blunder", "Mistake", "Inaccuracy"} THEN TRUE
    ELSE IF classification \in {"Perfect", "Splendid"} THEN TRUE
    ELSE IF classification = "Best" THEN TRUE
    ELSE IF classification = "Excellent" THEN s.explainExcellent
    ELSE IF classification = "Opening" THEN s.explainOpening
    ELSE IF Abs(evalChange) >= s.minEvalChange THEN TRUE
    ELSE FALSE

shouldExplainMove(s, classification, evalChange) ==
    IF classification \in {"Blunder", "Mistake", "Inaccuracy"} THEN TRUE
    ELSE IF classification \in {"Perfect", "Splendid"} THEN TRUE
    ELSE IF classification = "Best" THEN TRUE
    ELSE IF classification = "Excellent" /\ s.explainExcellent THEN TRUE
    ELSE IF classification = "Opening" /\ s.explainOpening THEN TRUE
    ELSE IF Abs(evalChange) >= s.minEvalChange THEN TRUE
    ELSE FALSE

-----------------------------------------------------------------------------
(* Requests, texts and replies *)

\* a move in UCI notation / a position in FEN notation / a move in SAN,
\* each identified by the 0-based index of the ply it belongs to
Uci(j) == <<"uci", j>>
Fen(j) == <<"fen", j>>
San(j) == <<"san", j>>

\* ExplanationRequest (the fields the modelled code reads)
MkRequest(fen, uciMove, moveNumber, classification) ==
    [fen |-> fen, uciMove |-> uciMove, moveNumber |-> moveNumber,
     classification |-> classification]

\* the value of a reply's "explanation" member: t is its JSON type, len the
\* number of characters (string) or of elements (array), elemLen the number
\* of characters of each element of an array
ExplField(t, len, elemLen) == [t |-> t, len |-> len, elemLen |-> elemLen]

AbsentField == ExplField("absent", 0, 0)

\* the trimmed reply text: len is its number of characters, json the type of
\* the JSON value it denotes ("invalid" when it is not JSON)
MkContent(len, json, explanation, themes, reason) ==
    [len |-> len, json |-> json, explanation |-> explanation,
     themes |-> themes, reason |-> reason]

\* number of characters a MoveExplanation.explanation displays as: a string
\* has len characters, an array is rendered as its elements joined by ","
TextLength(e) ==
    IF e.t = "array"
    THEN e.len * e.elemLen + (IF e.len > 0 THEN e.len - 1 ELSE 0)
    ELSE e.len

\* String.prototype.slice(0, m) and Array.prototype.slice(0, m), m >= 0
Slice0(e, m) == [e EXCEPT !.len = Min(e.len, m)]

MkExplanation(move, uciMove, moveNumber, explanation, themes, reason) ==
    [move |-> move, uciMove |-> uciMove, moveNumber |-> moveNumber,
     explanation |-> explanation, themes |-> themes,
     classificationReason |-> reason]

NullExplanation ==
    MkExplanation(<<"none", 0>>, <<"none", 0>>, 0,
                  [src |-> "none", t |-> "none", len |-> 0, elemLen |-> 0],
                  "none", [kind |-> "none", classification |-> ""])

\* result of a block that either returns a value or throws
Returned(v) == [threw |-> FALSE, value |-> v]
Thrown == [threw |-> TRUE, value |-> NullExplanation]

-----------------------------------------------------------------------------
(* MoveExplainerService.uciToAlgebraic and parseResponse *)

\* chess.js: new Chess(fen).move(...) succeeds exactly when the move is the
\* one playable in that position, and throws otherwise
ChessMoveThrows(uciMove, fen) == uciMove[2] # fen[2]

uciToAlgebraic(uciMove, fen) ==
    IF ChessMoveThrows(uciMove, fen)
    THEN uciMove            \* catch: fallback to UCI notation
    ELSE San(uciMove[2])

\* JSON.parse(content) throws on text that is not JSON
JsonParseThrows(content) == content.json = "invalid"

\* parsed.explanation.slice(0, maxLength) throws a TypeError unless
\* parsed.explanation is a string or an array
ExplanationSliceThrows(content) ==
    \/ content.json # "object"
    \/ content.explanation.t \notin {"string", "array"}

\* the try block of parseResponse
parseStructured(content, request, s) ==
    IF JsonParseThrows(content) \/ ExplanationSliceThrows(content)
    THEN Thrown
    ELSE Returned(MkExplanation(
            uciToAlgebraic(request.uciMove, request.fen),
            request.uciMove,
            request.moveNumber,
            [src |-> "parsed.explanation",
             t |-> content.explanation.t,
             len |-> Slice0(content.explanation, s.maxLength).len,
             elemLen |-> content.explanation.elemLen],
            IF content.themes = "absent" THEN "empty" ELSE "parsed.themes",
            [kind |-> IF content.reason = "absent" THEN "empty"
                      ELSE "parsed.reason",
             classification |-> ""]))

\* the catch block of parseResponse
parseFallback(content, request, s) ==
    Returned(MkExplanation(
        uciToAlgebraic(request.uciMove, request.fen),
        request.uciMove,
        request.moveNumber,
        [src |-> "content", t |-> "string",
         len |-> Min(content.len, s.maxLength), elemLen |-> 0],
        "empty",
        [kind |-> "classified as",
         classification |-> request.classification]))

parseResponse(content, request, s) ==
    LET structured == parseStructured(content, request, s)
    IN  IF structured.threw
        THEN parseFallback(content, request, s)
        ELSE structured

-----------------------------------------------------------------------------
(* MoveExplainerService.explainMove and batchExplainMoves *)

\* the HTTP response of fetch(): fulfilled with ok, fulfilled with a
\* non-success status, or rejected by the transport
FetchOutcomes == {"ok", "notOk", "networkError"}

\* error.message of the Error raised for a failed fetch
FetchErrorMessage(status) ==
    IF status = "notOk" THEN "OpenAI API error" ELSE "fetch failed"

\* a reply without content (choices[0]?.message?.content missing or blank)
EmptyContent == MkContent(0, "invalid", AbsentField, "absent", "absent")

\* a reply that follows the requested format
GoodContent ==
    MkContent(80, "object", ExplField("string", 40, 0), "array", "string")

\* the replies drawn for the remote calls of a batch
BatchContents == {EmptyContent, GoodContent}

\* !content
ContentMissing(content) == content.len = 0

\* fetch(this.baseUrl, ...): one more HTTP request for request k
IssueFetchTwice(h, k) == [h EXCEPT ![k] = @ + 2]

IssueFetch(h, k) == [h EXCEPT ![k] = @ + 1]

\* `Move ${request.moveNumber}: ${error.message}`
ErrorMsgByIndex(request, k, message) == [move |-> k, message |-> message]

ErrorMsg(request, k, message) ==
    [move |-> request.moveNumber, message |-> message]

\* requests.slice(i, i + concurrency), as the set of 1-based indices
WindowOfWide(i0, c, n) == (i0 + 1)..Min(i0 + c + 1, n)

WindowOf(i0, c, n) == (i0 + 1)..Min(i0 + c, n)

Window == WindowOf(i, concurrency, Len(requests))

InFlight == {k \in DOMAIN calls : calls[k] \in {"fetching", "reading"}}

\* await Promise.all(batchPromises): every callback of the window resolved
AllSettledAny(w) == \E k \in w : calls[k] = "settled"

AllSettled(w) == \A k \in w : calls[k] = "settled"

\* value a mapped callback resolves with: an explanation, or null
Fulfilled(v) == [ok |-> TRUE, value |-> v]
Null == [ok |-> FALSE, value |-> NullExplanation]

\* the argument of onProgress
ProgressOf(total, done, result, errs) ==
    [total |-> total, completed |-> done,
     current |-> IF result.ok
                 THEN [defined |-> TRUE, move |-> result.value.moveNumber]
                 ELSE [defined |-> FALSE, move |-> 0],
     errors |-> errs]

\* completed++
CompletedAfterSuccessOnly(done, result) ==
    IF result.ok THEN done + 1 ELSE done

CompletedAfter(done, result) == done + 1

\* batchResults: what Promise.all resolves with, the values of the window's
\* callbacks in the order of the requests (not in the order they resolved)
BatchResultsByCompletion(i0, c) ==
    [j \in 1..Len(settleOrder) |-> outcome[settleOrder[j]]]

BatchResults(i0, c) ==
    [j \in 1..(Min(i0 + c, Len(requests)) - i0) |-> outcome[i0 + j]]

\* results.push(result)
PushResultFront(res, v) == <<v>> \o res

PushResult(res, v) == Append(res, v)

\* errors.push(errorMsg)
PushErrorOverwrite(errs, e) == <<e>>

PushError(errs, e) == Append(errs, e)

\* i + concurrency < requests.length: a request remains after the window
MorePendingOrLast(i0, c, n) == i0 + c <= n

MorePending(i0, c, n) == i0 + c < n

\* i += concurrency
NextOffsetByOne(i0, c) == i0 + 1

NextOffset(i0, c) == i0 + c

\* for (const result of batchResults) { ... }: the loop from position k on
RECURSIVE ReportLoop(_, _, _)
ReportLoop(batchResults, k, st) ==
    IF k > Len(batchResults) THEN st
    ELSE LET result == batchResults[k]
             done == CompletedAfter(st.completed, result)
         IN  ReportLoop(batchResults, k + 1,
                [results |-> IF result.ok
                             THEN PushResult(st.results, result.value)
                             ELSE st.results,
                 completed |-> done,
                 snapshots |-> Append(st.snapshots,
                     ProgressOf(Len(requests), done, result, errors))])

\* the head of the for loop at offset i0: either the next window's callbacks
\* are started (each runs synchronously up to its fetch), or the loop ends
\* and the function returns
LoopHead(reqs, c, i0, cs, h, e) ==
    /\ i' = i0
    /\ IF i0 < Len(reqs)
       THEN LET w == WindowOf(i0, c, Len(reqs))
            IN  /\ pc' = "await"
                /\ calls' = [k \in DOMAIN cs |->
                               IF k \in w THEN "fetching" ELSE cs[k]]
                /\ httpCount' = [k \in DOMAIN h |->
                               IF k \in w THEN IssueFetch(h, k)[k] ELSE h[k]]
                /\ explainCalls' = [k \in DOMAIN e |->
                               IF k \in w THEN e[k] + 1 ELSE e[k]]
                /\ settleOrder' = <<>>
       ELSE /\ pc' = "done"
            /\ settleOrder' = settleOrder
            /\ calls' = cs
            /\ httpCount' = h
            /\ explainCalls' = e

\* batchExplainMoves is called: lines 137-156 up to the first await
BatchStart ==
    /\ pc = "start"
    /\ gpc = "none"
    /\ LoopHead(requests, concurrency, 0, calls, httpCount, explainCalls)
    /\ UNCHANGED <<hookVars, stats>>
    /\ UNCHANGED <<settings, requests, concurrency, results, errors,
                   completed, outcome, reply, snapshots, pauses, policyCall,
                   parseCall, gameEval, gpc, gameExplanations>>

\* the catch block of the mapped callback
CatchError(k, message) ==
    /\ errors' = PushError(errors, ErrorMsg(requests[k], k, message))
    /\ outcome' = [outcome EXCEPT ![k] = Null]
    /\ calls' = [calls EXCEPT ![k] = "settled"]
    /\ settleOrder' = Append(settleOrder, k)

\* await fetch(...) of request k completes
FetchResolve(k, status) ==
    /\ pc = "await"
    /\ k \in DOMAIN calls
    /\ calls[k] = "fetching"
    /\ reply' = [reply EXCEPT ![k] = [status |-> status,
                                      content |-> EmptyContent]]
    /\ IF status = "ok"
       THEN /\ calls' = [calls EXCEPT ![k] = "reading"]
            /\ UNCHANGED <<errors, outcome, settleOrder>>
       ELSE CatchError(k, FetchErrorMessage(status))
    /\ UNCHANGED <<hookVars, stats>>
    /\ UNCHANGED <<settings, requests, concurrency, pc, i, results,
                   completed, httpCount, explainCalls, snapshots, pauses,
                   policyCall, parseCall, gameEval, gpc, gameExplanations>>

\* await response.json() of request k completes with the given content
JsonResolve(k, content) ==
    /\ pc = "await"
    /\ k \in DOMAIN calls
    /\ calls[k] = "reading"
    /\ reply' = [reply EXCEPT ![k].content = content]
    /\ IF ContentMissing(content)
       THEN CatchError(k, "No explanation generated")
       ELSE LET r == parseResponse(content, requests[k], settings)
            IN  IF r.threw
                THEN CatchError(k, "Unknown error")
                ELSE /\ outcome' = [outcome EXCEPT ![k] = Fulfilled(r.value)]
                     /\ calls' = [calls EXCEPT ![k] = "settled"]
                     /\ settleOrder' = Append(settleOrder, k)
                     /\ UNCHANGED errors
    /\ UNCHANGED <<hookVars, stats>>
    /\ UNCHANGED <<settings, requests, concurrency, pc, i, results,
                   completed, httpCount, explainCalls, snapshots, pauses,
                   policyCall, parseCall, gameEval, gpc, gameExplanations>>

\* Promise.all resolves: the report loop runs, then either the timer of the
\* inter-window pause is started or the loop ends
WindowDone ==
    /\ pc = "await"
    /\ AllSettled(Window)
    /\ LET st == ReportLoop(BatchResults(i, concurrency), 1,
                    [results |-> results, completed |-> completed,
                     snapshots |-> snapshots])
       IN  /\ results' = st.results
           /\ completed' = st.completed
           /\ snapshots' = st.snapshots
    /\ IF MorePending(i, concurrency, Len(requests))
       THEN /\ pc' = "pause"
            /\ pauses' = pauses + 1
            /\ UNCHANGED <<i, calls, httpCount, explainCalls, settleOrder>>
       ELSE /\ LoopHead(requests, concurrency, NextOffset(i, concurrency),
                        calls, httpCount, explainCalls)
            /\ UNCHANGED pauses
    /\ UNCHANGED <<hookVars, stats>>
    /\ UNCHANGED <<settings, requests, concurrency, errors, outcome, reply,
                   policyCall, parseCall, gameEval, gpc, gameExplanations>>

\* the 100 ms timer fires: i += concurrency and the next window starts
PauseElapsed ==
    /\ pc = "pause"
    /\ LoopHead(requests, concurrency, NextOffset(i, concurrency),
                calls, httpCount, explainCalls)
    /\ UNCHANGED <<hookVars, stats>>
    /\ UNCHANGED <<settings, requests, concurrency, results, errors,
                   completed, outcome, reply, snapshots, pauses, policyCall,
                   parseCall, gameEval, gpc, gameExplanations>>

-----------------------------------------------------------------------------
(* Initial values *)

IdlePolicyCall ==
    [classification |-> "Okay", evalChange |-> 0,
     done |-> FALSE, result |-> FALSE]

IdleParseCall ==
    [content |-> EmptyContent,
     request |-> MkRequest(Fen(0), Uci(0), 1, "Okay"),
     done |-> FALSE, result |-> Thrown]

NoGameExplanations == [defined |-> FALSE, explanations |-> <<>>]

NoReply == [status |-> "none", content |-> EmptyContent]

\* useGameExplanations before anything is loaded
NoGame == [id |-> 0, pgn |-> "empty"]

NoEvaluation == [defined |-> FALSE, positions |-> <<>>]

\* useState<BatchExplanationProgress | null>(null)
NoProgress ==
    [defined |-> FALSE, total |-> 0, completed |-> 0, errors |-> <<>>]

\* useState<string | null>(null)
NoError == "null"

\* the gameExplanationsAtom holding undefined
NoStoredExplanations ==
    [defined |-> FALSE, gameId |-> 0, explanations |-> <<>>]

NoInvocation == [count |-> 0, apiKey |-> FALSE, issued |-> 0]

NoSettled ==
    [run |-> 0, status |-> "none", value |-> NoStoredExplanations,
     replaced |-> NoStoredExplanations]

\* getExplanationStats has not been called
NoStats ==
    [defined |-> FALSE, totalMoves |-> 0, movesToExplain |-> 0,
     byClassification |-> <<>>]

\* the hook is not in use
HookIdle ==
    /\ stats = NoStats
    /\ game = NoGame
    /\ gameEvalAtom = NoEvaluation
    /\ envKey = FALSE
    /\ isGenerating = FALSE
    /\ progress = NoProgress
    /\ error = NoError
    /\ closureIsGenerating = FALSE
    /\ gameExplanationsAtom = NoStoredExplanations
    /\ runs = <<>>
    /\ invocation = NoInvocation
    /\ settled = NoSettled

\* the local state of a batchExplainMoves call over n requests
FreshBatch(n) ==
    /\ pc = "start"
    /\ i = 0
    /\ results = <<>>
    /\ errors = <<>>
    /\ completed = 0
    /\ calls = [k \in 1..n |-> "idle"]
    /\ outcome = [k \in 1..n |-> Null]
    /\ reply = [k \in 1..n |-> NoReply]
    /\ httpCount = [k \in 1..n |-> 0]
    /\ explainCalls = [k \in 1..n |-> 0]
    /\ settleOrder = <<>>
    /\ snapshots = <<>>
    /\ pauses = 0

\* request lists handed to batchExplainMoves: n requests for the plies
\* stride, 2*stride, ... (every ply, or the plies of one side)
RequestList(n, stride) ==
    [k \in 1..n |->
        MkRequest(Fen(stride * k - 1), Uci(stride * k - 1), stride * k,
                  "Blunder")]

-----------------------------------------------------------------------------
(* The batch dispatcher on its own *)

Init ==
    /\ HookIdle
    /\ settings = DEFAULT_SETTINGS
    /\ \E n \in 0..MaxRequests, stride \in {1, 2} :
          /\ requests = RequestList(n, stride)
          /\ FreshBatch(n)
    /\ concurrency \in 1..MaxConcurrency
    /\ policyCall = IdlePolicyCall
    /\ parseCall = IdleParseCall
    /\ gameEval = <<>>
    /\ gpc = "none"
    /\ gameExplanations = NoGameExplanations

Next ==
    \/ BatchStart
    \/ \E k \in 1..Len(requests), status \in FetchOutcomes :
          FetchResolve(k, status)
    \/ \E k \in 1..Len(requests), content \in BatchContents :
          JsonResolve(k, content)
    \/ WindowDone
    \/ PauseElapsed

Spec == Init /\ [][Next]_vars

\* every remote call eventually resolves or fails and a continuation that
\* is ready to run is run: some enabled step is eventually taken
\* the runs followed to their end: lists of up to MaxRequests - 1 requests
\* for consecutive plies
InitLive ==
    /\ HookIdle
    /\ settings = DEFAULT_SETTINGS
    /\ \E n \in 0..(MaxRequests - 1) :
          /\ requests = RequestList(n, 1)
          /\ FreshBatch(n)
    /\ concurrency \in 1..MaxConcurrency
    /\ policyCall = IdlePolicyCall
    /\ parseCall = IdleParseCall
    /\ gameEval = <<>>
    /\ gpc = "none"
    /\ gameExplanations = NoGameExplanations

SpecLive == InitLive /\ [][Next]_vars /\ WF_vars(Next)

-----------------------------------------------------------------------------
(* GameExplanationService.explainGame and buildExplanationRequests *)

\* PositionEval (the fields the modelled code reads); winPercentage is the
\* value getPositionWinPercentage derives from the position's lines
MkPosition(classification, winPercentage) ==
    [moveClassification |-> classification, winPercentage |-> winPercentage]

getPositionWinPercentage(position) == position.winPercentage

\* 0-based access to a sequence
At(seq, j) == seq[j + 1]

\* fens and uciMoves collected from the parsed game: one position before
\* each move and one after the last
FensOf(plies) == [j \in 1..(plies + 1) |-> Fen(j - 1)]
UciMovesOf(plies) == [j \in 1..plies |-> Uci(j - 1)]

\* the request literal pushed for index j: the fields of MkRequest and the
\* evaluations, win percentages and side to move
RequestFor(fen, uciMove, positions, j) ==
    [fen |-> fen,
     uciMove |-> uciMove,
     moveNumber |-> j,
     positionEval |-> At(positions, j),
     previousPositionEval |-> At(positions, j - 1),
     classification |-> At(positions, j).moveClassification,
     previousWinPercentage |->
         getPositionWinPercentage(At(positions, j - 1)),
     currentWinPercentage |-> getPositionWinPercentage(At(positions, j)),
     isWhiteMove |-> (j % 2 = 1)]

\* bug variant: the position after the move is sent
RequestAtAfterMove(fens, uciMoves, positions, j) ==
    RequestFor(At(fens, j), At(uciMoves, j - 1), positions, j)

\* the body of the for loop of buildExplanationRequests for index j
RequestAt(fens, uciMoves, positions, j) ==
    RequestFor(At(fens, j - 1), At(uciMoves, j - 1), positions, j)

RECURSIVE buildFrom(_, _, _, _, _, _)
buildFrom(fens, uciMoves, positions, s, j, acc) ==
    IF ~(j < Len(positions)) THEN acc
    ELSE LET position == At(positions, j)
             previousPosition == At(positions, j - 1)
             evalChange == Abs(getPositionWinPercentage(position)
                               - getPositionWinPercentage(previousPosition))
         IN  IF position.moveClassification = NoClassification
             THEN buildFrom(fens, uciMoves, positions, s, j + 1, acc)
             ELSE IF shouldExplainMove(s, position.moveClassification,
                                       evalChange)
             THEN buildFrom(fens, uciMoves, positions, s, j + 1,
                      Append(acc, RequestAt(fens, uciMoves, positions, j)))
             ELSE buildFrom(fens, uciMoves, positions, s, j + 1, acc)

RECURSIVE buildAllFrom(_, _, _, _, _, _)
buildAllFrom(fens, uciMoves, positions, s, j, acc) ==
    IF ~(j < Len(positions)) THEN acc
    ELSE buildAllFrom(fens, uciMoves, positions, s, j + 1,
             Append(acc, RequestAt(fens, uciMoves, positions, j)))

\* bug variant: every ply gets a request
buildExplanationRequestsAll(fens, uciMoves, positions, s) ==
    buildAllFrom(fens, uciMoves, positions, s, 1, <<>>)

buildExplanationRequests(fens, uciMoves, positions, s) ==
    buildFrom(fens, uciMoves, positions, s, 1, <<>>)

\* for (const explanation of explanations)
\*     explanationMap[explanation.moveNumber] = explanation
RECURSIVE explanationMapFrom(_, _, _)
explanationMapFrom(explanations, k, map) ==
    IF k > Len(explanations) THEN map
    ELSE LET e == explanations[k]
         IN  explanationMapFrom(explanations, k + 1,
                [m \in (DOMAIN map) \cup {e.moveNumber} |->
                    IF m = e.moveNumber THEN e ELSE map[m]])

explanationMap(explanations) == explanationMapFrom(explanations, 1, <<>>)

\* explainGame is called: the game is parsed, the requests are built and
\* batchExplainMoves runs up to its first await
ExplainGame ==
    /\ gpc = "start"
    /\ LET plies == Len(gameEval) - 1
           reqs == buildExplanationRequests(FensOf(plies), UciMovesOf(plies),
                                            gameEval, settings)
           n == Len(reqs)
       IN  /\ requests' = reqs
           /\ concurrency' = DefaultConcurrency
           /\ results' = <<>>
           /\ errors' = <<>>
           /\ completed' = 0
           /\ outcome' = [k \in 1..n |-> Null]
           /\ reply' = [k \in 1..n |-> NoReply]
           /\ LoopHead(reqs, DefaultConcurrency, 0,
                       [k \in 1..n |-> "idle"], [k \in 1..n |-> 0],
                       [k \in 1..n |-> 0])
    /\ gpc' = "await"
    /\ UNCHANGED <<hookVars, stats>>
    /\ UNCHANGED <<settings, snapshots, pauses, policyCall, parseCall,
                   gameEval, gameExplanations>>

\* batchExplainMoves has returned: the explanations map is built
ExplainGameReturn ==
    /\ gpc = "await"
    /\ pc = "done"
    /\ gameExplanations' =
          [defined |-> TRUE, explanations |-> explanationMap(results)]
    /\ gpc' = "done"
    /\ UNCHANGED <<hookVars, stats>>
    /\ UNCHANGED <<settings, batchVars, policyCall, parseCall, gameEval>>

\* the for loop of getExplanationStats from index j on
RECURSIVE statsFrom(_, _, _, _)
statsFrom(positions, s, j, st) ==
    IF ~(j < Len(positions)) THEN st
    ELSE LET position == At(positions, j)
             previousPosition == At(positions, j - 1)
             classification == position.moveClassification
             evalChange == Abs(getPositionWinPercentage(position)
                               - getPositionWinPercentage(previousPosition))
             counted ==
                 [st EXCEPT !.byClassification =
                     [c \in (DOMAIN @) \cup {classification} |->
                         IF c = classification
                         THEN (IF c \in DOMAIN @ THEN @[c] ELSE 0) + 1
                         ELSE @[c]]]
         IN  IF classification = NoClassification
             THEN statsFrom(positions, s, j + 1, st)
             ELSE IF shouldExplainMove(s, classification, evalChange)
             THEN statsFrom(positions, s, j + 1,
                     [counted EXCEPT !.movesToExplain = @ + 1])
             ELSE statsFrom(positions, s, j + 1, counted)

\* bug variant: every move is counted as a move to explain
getExplanationStatsEveryMove(positions, s) ==
    [defined |-> TRUE, totalMoves |-> Len(positions) - 1,
     movesToExplain |-> Len(positions) - 1, byClassification |-> <<>>]

getExplanationStats(positions, s) ==
    statsFrom(positions, s, 1,
        [defined |-> TRUE, totalMoves |-> Len(positions) - 1,
         movesToExplain |-> 0, byClassification |-> <<>>])

\* getExplanationStats is called with the evaluation of a finished
\* explainGame run
GetExplanationStats ==
    /\ gpc = "done"
    /\ ~stats.defined
    /\ stats' = getExplanationStats(gameEval, settings)
    /\ UNCHANGED <<serviceVars, hookVars>>

\* the evaluated positions of a game: classification and win percentage
PositionEvals ==
    {MkPosition(NoClassification, 50), MkPosition("Blunder", 30),
     MkPosition("Okay", 50), MkPosition("Okay", 56)}

RECURSIVE SeqsOf(_, _)
SeqsOf(S, n) ==
    IF n = 0 THEN {<<>>}
    ELSE {Append(q, x) : q \in SeqsOf(S, n - 1), x \in S}

\* game traces: the initial position and up to MaxPly evaluated plies
GameEvals ==
    UNION {{<<MkPosition(NoClassification, 50)>> \o q :
                q \in SeqsOf(PositionEvals, n)} : n \in 0..MaxPly}

InitGame ==
    /\ HookIdle
    /\ settings = DEFAULT_SETTINGS
    /\ gameEval \in GameEvals
    /\ requests = <<>>
    /\ concurrency = DefaultConcurrency
    /\ FreshBatch(0)
    /\ policyCall = IdlePolicyCall
    /\ parseCall = IdleParseCall
    /\ gpc = "start"
    /\ gameExplanations = NoGameExplanations

NextGame ==
    \/ ExplainGame
    \/ \E k \in 1..Len(requests), status \in FetchOutcomes :
          FetchResolve(k, status)
    \/ \E k \in 1..Len(requests), content \in BatchContents :
          JsonResolve(k, content)
    \/ WindowDone
    \/ PauseElapsed
    \/ ExplainGameReturn
    \/ GetExplanationStats

SpecGame == InitGame /\ [][NextGame]_vars

-----------------------------------------------------------------------------
(* shouldExplainMove on its own *)

PolicySettings ==
    [maxLength : {150}, explainExcellent : BOOLEAN,
     explainOpening : BOOLEAN, minEvalChange : {0, 5, 10}]

EvalChanges == {-10, -6, -5, -4, 0, 4, 5, 6, 10}

PolicyApply ==
    /\ ~policyCall.done
    /\ policyCall' = [policyCall EXCEPT
          !.done = TRUE,
          !.result = shouldExplainMove(settings, policyCall.classification,
                                       policyCall.evalChange)]
    /\ UNCHANGED <<hookVars, stats>>
    /\ UNCHANGED <<settings, batchVars, parseCall, gameEval, gpc,
                   gameExplanations>>

InitPolicy ==
    /\ HookIdle
    /\ settings \in PolicySettings
    /\ \E c \in MoveClassification, d \in EvalChanges :
          policyCall = [classification |-> c, evalChange |-> d,
                        done |-> FALSE, result |-> FALSE]
    /\ requests = <<>>
    /\ concurrency = DefaultConcurrency
    /\ FreshBatch(0)
    /\ parseCall = IdleParseCall
    /\ gameEval = <<>>
    /\ gpc = "none"
    /\ gameExplanations = NoGameExplanations

NextPolicy == PolicyApply

SpecPolicy == InitPolicy /\ [][NextPolicy]_vars

-----------------------------------------------------------------------------
(* parseResponse on its own *)

\* values of the "explanation" member of a reply object
ExplFields ==
    {AbsentField, ExplField("null", 0, 0), ExplField("number", 0, 0)}
    \cup {ExplField("string", n, 0) : n \in {0, 1, 20, 21, 150, 151, 300}}
    \cup {ExplField("array", n, m) : n \in {0, 2, 151}, m \in {1, 100}}

\* a reply that is a JSON object: its text holds at least its explanation
ObjectContent(e, themes, reason) ==
    MkContent(TextLength(e) + 20, "object", e, themes, reason)

\* non-empty reply texts: not JSON, JSON that is not an object, JSON objects
ParseContents ==
    {MkContent(n, j, AbsentField, "absent", "absent") :
        n \in {1, 21, 151, 400},
        j \in {"invalid", "null", "number", "string", "array"}}
    \cup {ObjectContent(e, th, r) :
        e \in ExplFields, th \in {"absent", "array"},
        r \in {"absent", "string"}}

\* requests: the move belongs to the position (a played move) or not
ParseRequests ==
    {MkRequest(Fen(f), Uci(m - 1), m, c) :
        m \in {1, 2}, f \in {0, 1}, c \in {"Blunder", "Okay"}}

ParseSettings == [DEFAULT_SETTINGS EXCEPT !.maxLength = 20]

ParseApply ==
    /\ ~parseCall.done
    /\ parseCall' = [parseCall EXCEPT
          !.done = TRUE,
          !.result = parseResponse(parseCall.content, parseCall.request,
                                   settings)]
    /\ UNCHANGED <<hookVars, stats>>
    /\ UNCHANGED <<settings, batchVars, policyCall, gameEval, gpc,
                   gameExplanations>>

InitParse ==
    /\ HookIdle
    /\ settings \in {DEFAULT_SETTINGS, ParseSettings}
    /\ \E c \in ParseContents, r \in ParseRequests :
          parseCall = [content |-> c, request |-> r,
                       done |-> FALSE, result |-> Thrown]
    /\ requests = <<>>
    /\ concurrency = DefaultConcurrency
    /\ FreshBatch(0)
    /\ policyCall = IdlePolicyCall
    /\ gameEval = <<>>
    /\ gpc = "none"
    /\ gameExplanations = NoGameExplanations

NextParse == ParseApply

SpecParse == InitParse /\ [][NextParse]_vars

-----------------------------------------------------------------------------
(* useGameExplanations: generateExplanations, clearExplanations and the    *)
(* effect that clears the stored explanations when the game changes.       *)
(* A run is followed window by window: the calls of a window settle in one *)
(* step, with no failure, a failure of its first call, or of all calls.    *)

\* game.pgn() of the loaded game: "empty" is the empty string, "invalid" a
\* text on which chess.loadPgn throws
PgnKinds == {"empty", "valid", "invalid"}

\* the text game.pgn() returns: games differ in their moves
PgnOf(g) == IF g.pgn = "empty" THEN <<>> ELSE <<g.pgn, g.id>>

Evaluation(positions) == [defined |-> TRUE, positions |-> positions]

\* a game of which every move is explained: one request more than a window
LongGame ==
    <<MkPosition(NoClassification, 50)>>
        \o [j \in 1..(DefaultConcurrency + 1) |-> MkPosition("Blunder", 30)]

HookEvaluations == {NoEvaluation, Evaluation(LongGame)}

KeyNotFoundMessage == "OpenAI API key not found"

\* err.message of what explainGame threw
ThrownMessage == "err.message"

\* const key = apiKey || process.env.NEXT_PUBLIC_OPENAI_API_KEY; !!key
KeyAvailable(apiKey, env) == apiKey \/ env

\* if (!gameEval || !game.pgn() || isGenerating) return, evaluated in the
\* callback created by the last render
GuardReturns ==
    \/ ~gameEvalAtom.defined
    \/ game.pgn = "empty"
    \/ closureIsGenerating

\* setProgress({ total: 0, completed: 0, errors: [] })
InitialProgress ==
    [defined |-> TRUE, total |-> 0, completed |-> 0, errors |-> <<>>]

\* explainGame up to its first await: loadPgn, buildExplanationRequests and
\* the start of batchExplainMoves; "rejected" when it threw before
NewRun(g, positions) ==
    LET plies == Len(positions) - 1
    IN  [game |-> g.id,
         status |-> IF g.pgn = "invalid" THEN "rejected" ELSE "await",
         requests |-> IF g.pgn = "invalid" THEN <<>>
                      ELSE buildExplanationRequests(FensOf(plies),
                               UciMovesOf(plies), positions,
                               DEFAULT_SETTINGS),
         i |-> 0, results |-> <<>>, errors |-> <<>>, completed |-> 0]

\* the window of the run whose calls are outstanding
RunWindowOf(run) == WindowOf(run.i, DefaultConcurrency, Len(run.requests))

\* the explanation explainMove returns for a request
ExplanationOf(request) ==
    parseResponse(GoodContent, request, DEFAULT_SETTINGS).value

\* the sets of failing calls drawn for a window w
FailureSets(w) ==
    {{}, w} \cup {{k} : k \in {j \in w : \A l \in w : j <= l}}

\* the calls k..last of the window settle, those in failed with an error,
\* and the report loop runs over them; a window settles in one step of this
\* model, its failures recorded in the order of the requests
RECURSIVE SettleFrom(_, _, _, _)
SettleFrom(run, k, last, failed) ==
    IF k > last THEN run
    ELSE SettleFrom(
            IF k \in failed
            THEN [run EXCEPT
                    !.errors = PushError(@, ErrorMsg(run.requests[k], k,
                                            FetchErrorMessage("notOk"))),
                    !.completed = CompletedAfter(@, Null)]
            ELSE [run EXCEPT
                    !.results = PushResult(@, ExplanationOf(run.requests[k])),
                    !.completed = CompletedAfter(@,
                        Fulfilled(ExplanationOf(run.requests[k])))],
            k + 1, last, failed)

SettleWindow(run, failed) ==
    SettleFrom(run, run.i + 1,
               Min(run.i + DefaultConcurrency, Len(run.requests)), failed)

\* (progressUpdate) => setProgress(progressUpdate), for the last callback of
\* a window
ProgressUpdate(run) ==
    [defined |-> TRUE, total |-> Len(run.requests),
     completed |-> run.completed, errors |-> run.errors]

\* the GameExplanations explainGame resolves with
GameExplanationsOf(run) ==
    [defined |-> TRUE, gameId |-> run.game,
     explanations |-> explanationMap(run.results)]

\* bug variant: the new explanations are merged into the stored ones
StoreExplanationsMerged(stored, value) ==
    [value EXCEPT !.explanations =
        [m \in (DOMAIN stored.explanations) \cup (DOMAIN value.explanations)
            |-> IF m \in DOMAIN value.explanations
                THEN value.explanations[m] ELSE stored.explanations[m]]]

\* setGameExplanations(explanations)
StoreExplanations(stored, value) == value

\* a run whose hook continuation has finished
FinishedRun(run, status) ==
    [game |-> run.game, status |-> status, requests |-> <<>>, i |-> 0,
     results |-> <<>>, errors |-> <<>>, completed |-> 0]

RunsInFlight ==
    {r \in 1..Len(runs) : runs[r].status \in {"await", "rejected"}}

\* generateExplanations(apiKey) is called on the callback of the last render
\* and runs up to its first await
Invoke(apiKey) ==
    /\ invocation.count < MaxInvocations
    /\ IF GuardReturns
       THEN /\ invocation' = [count |-> invocation.count + 1,
                              apiKey |-> apiKey, issued |-> 0]
            /\ UNCHANGED <<isGenerating, progress, error, runs>>
       ELSE IF ~KeyAvailable(apiKey, envKey)
       THEN /\ invocation' = [count |-> invocation.count + 1,
                              apiKey |-> apiKey, issued |-> 0]
            /\ error' = KeyNotFoundMessage
            /\ UNCHANGED <<isGenerating, progress, runs>>
       ELSE LET run == NewRun(game, gameEvalAtom.positions)
            IN  /\ invocation' = [count |-> invocation.count + 1,
                                  apiKey |-> apiKey,
                                  issued |-> Cardinality(RunWindowOf(run))]
                /\ isGenerating' = TRUE
                /\ error' = NoError
                /\ progress' = InitialProgress
                /\ runs' = Append(runs, run)
    /\ UNCHANGED <<game, gameEvalAtom, envKey, closureIsGenerating,
                   gameExplanationsAtom, settled>>
    /\ UNCHANGED <<serviceVars, stats>>

\* the calls of a window of run r settle, its callbacks update the progress
\* and, after the pause, the calls of the next window are issued
RunWindow(r, failed) ==
    /\ runs[r].status = "await"
    /\ MorePending(runs[r].i, DefaultConcurrency, Len(runs[r].requests))
    /\ LET run == SettleWindow(runs[r], failed)
           next == [run EXCEPT !.i = @ + DefaultConcurrency]
       IN  /\ progress' = ProgressUpdate(run)
           /\ runs' = [runs EXCEPT ![r] = next]
    /\ UNCHANGED <<game, gameEvalAtom, envKey, isGenerating, error,
                   closureIsGenerating, gameExplanationsAtom, invocation,
                   settled>>
    /\ UNCHANGED <<serviceVars, stats>>

\* the calls of the last window of run r settle, explainGame resolves and
\* generateExplanations continues after its await: the try block ends and
\* the finally block runs
RunReturn(r, failed) ==
    /\ runs[r].status = "await"
    /\ ~MorePending(runs[r].i, DefaultConcurrency, Len(runs[r].requests))
    /\ LET run == SettleWindow(runs[r], failed)
           explanations == GameExplanationsOf(run)
       IN  /\ gameExplanationsAtom' =
                 StoreExplanations(gameExplanationsAtom, explanations)
           /\ settled' = [run |-> r, status |-> "resolved",
                          value |-> explanations,
                          replaced |-> gameExplanationsAtom]
           /\ runs' = [runs EXCEPT ![r] = FinishedRun(run, "resolved")]
    /\ isGenerating' = FALSE
    /\ progress' = NoProgress
    /\ UNCHANGED <<game, gameEvalAtom, envKey, error, closureIsGenerating,
                   invocation>>
    /\ UNCHANGED <<serviceVars, stats>>

\* explainGame of run r threw: the catch block and the finally block run
RunThrow(r) ==
    /\ runs[r].status = "rejected"
    /\ error' = ThrownMessage
    /\ settled' = [run |-> r, status |-> "threw",
                   value |-> NoStoredExplanations,
                   replaced |-> gameExplanationsAtom]
    /\ runs' = [runs EXCEPT ![r] = FinishedRun(runs[r], "threw")]
    /\ isGenerating' = FALSE
    /\ progress' = NoProgress
    /\ UNCHANGED <<game, gameEvalAtom, envKey, closureIsGenerating,
                   gameExplanationsAtom, invocation>>
    /\ UNCHANGED <<serviceVars, stats>>

\* the component renders again: useCallback creates generateExplanations
\* anew, capturing the current isGenerating
Render ==
    /\ closureIsGenerating # isGenerating
    /\ closureIsGenerating' = isGenerating
    /\ UNCHANGED <<game, gameEvalAtom, envKey, isGenerating, progress, error,
                   gameExplanationsAtom, runs, invocation, settled>>
    /\ UNCHANGED <<serviceVars, stats>>

\* another game is loaded: the component renders with it and the effect on
\* game.pgn() calls clearExplanations when the text differs
GameChange(pgn, evaluation) ==
    /\ game.id < MaxGames
    /\ game' = [id |-> game.id + 1, pgn |-> pgn]
    /\ gameEvalAtom' = evaluation
    /\ closureIsGenerating' = isGenerating
    /\ IF PgnOf(game') # PgnOf(game)
       THEN /\ gameExplanationsAtom' = NoStoredExplanations
            /\ error' = NoError
       ELSE UNCHANGED <<gameExplanationsAtom, error>>
    /\ UNCHANGED <<envKey, isGenerating, progress, runs, invocation,
                   settled>>
    /\ UNCHANGED <<serviceVars, stats>>

\* const shouldAutoGenerate = !gameExplanations && !isGenerating && !!gameEval
shouldAutoGenerate ==
    /\ ~gameExplanationsAtom.defined
    /\ ~isGenerating
    /\ gameEvalAtom.defined

\* useExplanations: the stored explanations have at least one entry
hasExplanations ==
    /\ gameExplanationsAtom.defined
    /\ DOMAIN gameExplanationsAtom.explanations # {}

\* ExplainButton rendered in the current state returns its button, not null:
\* if (!shouldAutoGenerate && !hasExplanations) return null
ExplainButtonRenders == ~(~shouldAutoGenerate /\ ~hasExplanations)

\* the hook is mounted with a game loaded; the effect has run once
InitHook ==
    /\ stats = NoStats
    /\ settings = DEFAULT_SETTINGS
    /\ requests = <<>>
    /\ concurrency = DefaultConcurrency
    /\ FreshBatch(0)
    /\ policyCall = IdlePolicyCall
    /\ parseCall = IdleParseCall
    /\ gameEval = <<>>
    /\ gpc = "none"
    /\ gameExplanations = NoGameExplanations
    /\ \E pgn \in PgnKinds : game = [id |-> 1, pgn |-> pgn]
    /\ gameEvalAtom \in HookEvaluations
    /\ envKey \in BOOLEAN
    /\ isGenerating = FALSE
    /\ progress = NoProgress
    /\ error = NoError
    /\ closureIsGenerating = FALSE
    /\ gameExplanationsAtom = NoStoredExplanations
    /\ runs = <<>>
    /\ invocation = NoInvocation
    /\ settled = NoSettled

NextHook ==
    \/ \E apiKey \in BOOLEAN : Invoke(apiKey)
    \/ \E r \in 1..Len(runs) :
          \E failed \in FailureSets(RunWindowOf(runs[r])) : RunWindow(r, failed)
    \/ \E r \in 1..Len(runs) :
          \E failed \in FailureSets(RunWindowOf(runs[r])) : RunReturn(r, failed)
    \/ \E r \in 1..Len(runs) : RunThrow(r)
    \/ Render
    \/ \E pgn \in PgnKinds, evaluation \in HookEvaluations :
          GameChange(pgn, evaluation)

SpecHook == InitHook /\ [][NextHook]_vars

-----------------------------------------------------------------------------
(* Properties of batchExplainMoves, checked under Spec *)

\* the requests whose mapped callback resolved with null
Failed == {k \in 1..Len(requests) : calls[k] = "settled" /\ ~outcome[k].ok}

\* the indices of the window at offset i, from the loop variables alone
CurrentWindow ==
    {k \in 1..Len(requests) : i < k /\ k <= i + concurrency}

RECURSIVE SumOver(_, _)
SumOver(f, S) ==
    IF S = {} THEN 0
    ELSE LET k == CHOOSE x \in S : TRUE
         IN  f[k] + SumOver(f, S \ {k})

\* C1: when batchExplainMoves returns, every request has been called, the
\* result holds exactly one explanation for each request that did not fail
\* (n - |F| in all), and the error list holds exactly |F| entries, one for
\* each failed request, naming that request's move number.
C1_FailuresAreLocal ==
    pc = "done" =>
        LET n == Len(requests)
        IN  /\ \A k \in 1..n : explainCalls[k] = 1 /\ calls[k] = "settled"
            /\ Len(results) = n - Cardinality(Failed)
            /\ \A k \in (1..n) \ Failed :
                  Cardinality({j \in 1..Len(results) :
                      results[j].moveNumber = requests[k].moveNumber}) = 1
            /\ Len(errors) = Cardinality(Failed)
            /\ \A k \in Failed :
                  Cardinality({j \in 1..Len(errors) :
                      errors[j].move = requests[k].moveNumber}) = 1

\* a run over two windows or more returned although a request of the first
\* window and another request failed, and some request succeeded
C1_Witness ==
    /\ pc = "done"
    /\ Len(requests) > concurrency
    /\ 1 \in Failed
    /\ Cardinality(Failed) >= 2
    /\ Len(results) >= 1
    /\ requests[1].moveNumber # 1

\* C2: in every progress snapshot total is the number of requests, the j-th
\* snapshot has completed = j (so completed starts at 1 and grows by 1),
\* completed never exceeds total, and the last snapshot of a finished run
\* has completed = total.
C2_ProgressCounts ==
    /\ \A j \in 1..Len(snapshots) :
          /\ snapshots[j].total = Len(requests)
          /\ snapshots[j].completed = j
          /\ snapshots[j].completed <= snapshots[j].total
    /\ (pc = "done" /\ Len(requests) > 0) =>
          /\ Len(snapshots) > 0
          /\ snapshots[Len(snapshots)].completed = Len(requests)

\* a finished run of several windows with a snapshot of a failed item
C2_Witness ==
    /\ pc = "done"
    /\ Len(snapshots) >= 4
    /\ Len(requests) > concurrency
    /\ \E j \in 1..Len(snapshots) : ~snapshots[j].current.defined
    /\ \E j \in 1..Len(snapshots) : snapshots[j].current.defined

\* C3 (state part): callback j is issued only when request j has resolved,
\* callbacks come in whole windows, a request is started only when the
\* callbacks of all earlier windows have been issued, and a finished run has
\* issued one callback per request.
C3_CallbackState ==
    /\ \A j \in 1..Len(snapshots) : calls[j] = "settled"
    /\ Len(snapshots) % concurrency = 0 \/ Len(snapshots) = Len(requests)
    /\ \A k \in 1..Len(requests) :
          calls[k] # "idle" =>
              Len(snapshots) >= concurrency * ((k - 1) \div concurrency)
    /\ pc = "done" => Len(snapshots) = Len(requests)

\* C3 (step part): a step that issues callbacks issues one for each item of
\* the current window, all of whose calls have resolved, and leaves every
\* request of the later windows unstarted.
C3_CallbackStep ==
    Len(snapshots') # Len(snapshots) =>
        /\ \A k \in CurrentWindow : calls[k] = "settled"
        /\ Len(snapshots') = Len(snapshots) + Cardinality(CurrentWindow)
        /\ \A k \in 1..Len(requests) :
              k > i + concurrency => calls'[k] = "idle" /\ httpCount'[k] = 0

\* C3: onProgress is invoked exactly once per request, in groups of one
\* window each, after the window's calls have all resolved and before any
\* call of the next window is started.
C3_CallbacksPerWindow == [](C3_CallbackState) /\ [][C3_CallbackStep]_vars

\* the callbacks of a first window that held a failure have been issued and
\* a smaller last window is still to come
C3_Witness ==
    /\ pc = "pause"
    /\ Len(snapshots) = concurrency
    /\ concurrency >= 2
    /\ Len(requests) % concurrency # 0
    /\ \E j \in 1..Len(snapshots) : ~snapshots[j].current.defined

\* C4: at most `concurrency` calls are in flight, they all belong to the
\* current window, every call of the earlier windows has resolved and no
\* call of a later window has been issued.
C4_BoundedFanOut ==
    /\ Cardinality(InFlight) <= concurrency
    /\ InFlight \subseteq CurrentWindow
    /\ \A k \in 1..Len(requests) :
          /\ (k <= i /\ pc # "start") => calls[k] = "settled"
          /\ k > i + concurrency => calls[k] = "idle" /\ httpCount[k] = 0

\* a whole second window is in flight after a first window with a failure
C4_Witness ==
    /\ pc = "await"
    /\ i > 0
    /\ concurrency >= 2
    /\ Cardinality(InFlight) = concurrency
    /\ \E k \in 1..i : ~outcome[k].ok

\* the requests whose remote call returned a non-success status, was
\* rejected by the transport, or returned no content
BadReply ==
    {k \in 1..Len(requests) :
        \/ reply[k].status \in {"notOk", "networkError"}
        \/ reply[k].status = "ok" /\ calls[k] = "settled"
              /\ reply[k].content.len = 0}

\* C10: every explainMove invocation issues exactly one HTTP request and is
\* never repeated; a call whose response is non-success or without content
\* yields no explanation; a finished run over n requests has issued exactly
\* n HTTP requests, one per request.
C10_OneRequestNoRetry ==
    /\ \A k \in 1..Len(requests) :
          /\ httpCount[k] = explainCalls[k]
          /\ httpCount[k] <= 1
          /\ calls[k] # "idle" => httpCount[k] = 1
    /\ \A k \in BadReply :
          /\ calls[k] = "settled"
          /\ ~outcome[k].ok
          /\ \A j \in 1..Len(results) :
                results[j].moveNumber # requests[k].moveNumber
    /\ pc = "done" =>
          /\ SumOver(httpCount, 1..Len(requests)) = Len(requests)
          /\ \A k \in 1..Len(requests) : httpCount[k] = 1

\* a finished run with a non-success response, an empty response and a
\* successful one
C10_Witness ==
    /\ pc = "done"
    /\ Len(requests) > concurrency
    /\ \E k \in BadReply : reply[k].status = "notOk"
    /\ \E k \in BadReply : reply[k].status = "ok"
    /\ Len(results) >= 1

-----------------------------------------------------------------------------
(* Properties of explainGame, checked under SpecGame *)

\* the plies the policy accepts, computed from the trace alone
AcceptedPlies ==
    {m \in 1..(Len(gameEval) - 1) :
        /\ At(gameEval, m).moveClassification # NoClassification
        /\ shouldExplainMove(settings, At(gameEval, m).moveClassification,
              Abs(At(gameEval, m).winPercentage
                  - At(gameEval, m - 1).winPercentage))}

\* C5: the returned explanations map has a key only for plies that have a
\* classification and that the policy accepted; its keys are exactly the
\* move numbers of the requests whose remote call succeeded, each with the
\* explanation of that move.
C5_OnlyAcceptedMovesExplained ==
    gameExplanations.defined =>
        LET map == gameExplanations.explanations
        IN  /\ DOMAIN map \subseteq AcceptedPlies
            /\ DOMAIN map = {requests[k].moveNumber :
                                k \in (1..Len(requests)) \ Failed}
            /\ \A k \in (1..Len(requests)) \ Failed :
                  map[requests[k].moveNumber] = outcome[k].value
            /\ \A k \in Failed : requests[k].moveNumber \notin DOMAIN map
            /\ Cardinality(DOMAIN map) = Len(requests) - Cardinality(Failed)

\* a game with an explained ply, a ply the policy rejected, a ply without
\* classification and a ply whose remote call failed
C5_Witness ==
    /\ gameExplanations.defined
    /\ DOMAIN gameExplanations.explanations # {}
    /\ Failed # {}
    /\ \E m \in 1..(Len(gameEval) - 1) :
          At(gameEval, m).moveClassification = NoClassification
    /\ \E m \in 1..(Len(gameEval) - 1) :
          /\ At(gameEval, m).moveClassification = "Okay"
          /\ m \notin AcceptedPlies

\* the indices of the requests built for ply m
RequestsOfPly(m) == {k \in 1..Len(requests) : requests[k].moveNumber = m}

\* C17: once the requests are built there is exactly one request for each
\* ply from 1 to the last position that has a classification and that
\* shouldExplainMove accepts, and none for any other ply; the request of ply
\* m carries moveNumber m, the position before the move, the move, both
\* evaluations and isWhiteMove exactly when m is odd; the list is strictly
\* ascending in moveNumber.
C17_RequestsBuilt ==
    gpc # "start" =>
        /\ \A m \in 1..(Len(gameEval) - 1) :
              Cardinality(RequestsOfPly(m)) =
                  IF m \in AcceptedPlies THEN 1 ELSE 0
        /\ \A k \in 1..Len(requests) :
              LET m == requests[k].moveNumber
              IN  /\ m \in 1..(Len(gameEval) - 1)
                  /\ requests[k].fen = Fen(m - 1)
                  /\ requests[k].uciMove = Uci(m - 1)
                  /\ requests[k].positionEval = At(gameEval, m)
                  /\ requests[k].previousPositionEval = At(gameEval, m - 1)
                  /\ requests[k].classification =
                        At(gameEval, m).moveClassification
                  /\ requests[k].isWhiteMove = (m % 2 = 1)
        /\ \A k1, k2 \in 1..Len(requests) :
              k1 < k2 => requests[k1].moveNumber < requests[k2].moveNumber

\* requests were built for a white and for a black move of a game that also
\* has a ply without classification and a classified ply the policy rejects
C17_Witness ==
    /\ gpc # "start"
    /\ \E k1, k2 \in 1..Len(requests) :
          requests[k1].isWhiteMove /\ ~requests[k2].isWhiteMove
    /\ \E m \in 1..(Len(gameEval) - 1) :
          At(gameEval, m).moveClassification = NoClassification
    /\ \E m \in 1..(Len(gameEval) - 1) :
          /\ At(gameEval, m).moveClassification # NoClassification
          /\ m \notin AcceptedPlies

-----------------------------------------------------------------------------
(* Properties of shouldExplainMove, checked under SpecPolicy *)

PolicyFlag(classification) ==
    IF classification = "Excellent" THEN settings.explainExcellent
    ELSE IF classification = "Opening" THEN settings.explainOpening
    ELSE FALSE

\* C7: for Excellent, Opening, Okay and Forced the result is
\* flag(c) OR abs(delta) >= minEvalChange, the threshold being inclusive;
\* Opening with delta 0, explainOpening off and minEvalChange 5 gives false.
C7_FlagOrThreshold ==
    (policyCall.done /\ policyCall.classification \in
        {"Excellent", "Opening", "Okay", "Forced"})
    => /\ policyCall.result =
            (PolicyFlag(policyCall.classification)
             \/ Abs(policyCall.evalChange) >= settings.minEvalChange)
       /\ (policyCall.classification = "Opening"
           /\ policyCall.evalChange = 0
           /\ ~settings.explainOpening
           /\ settings.minEvalChange = 5) => policyCall.result = FALSE

\* an Okay move whose evaluation change is exactly the threshold
C7_Witness ==
    /\ policyCall.done
    /\ policyCall.classification = "Okay"
    /\ settings.minEvalChange = 5
    /\ Abs(policyCall.evalChange) = settings.minEvalChange
    /\ policyCall.result = TRUE

\* C8 as stated: an Excellent move is explained iff explainExcellent is
\* enabled and an Opening move iff explainOpening is enabled, whatever the
\* evaluation change (first match wins).
C8_FirstMatchWins ==
    policyCall.done =>
        /\ policyCall.classification = "Excellent" =>
              policyCall.result = settings.explainExcellent
        /\ policyCall.classification = "Opening" =>
              policyCall.result = settings.explainOpening

\* C8 as amended: an Excellent (Opening) move is explained whatever the
\* evaluation change when explainExcellent (explainOpening) is enabled; when
\* the flag is disabled the move falls through to the threshold rule and is
\* explained exactly when abs(delta) >= minEvalChange.
C8_FirstTrueWins ==
    policyCall.done =>
        LET overThreshold ==
                Abs(policyCall.evalChange) >= settings.minEvalChange
        IN  /\ (policyCall.classification = "Excellent"
                /\ settings.explainExcellent) => policyCall.result = TRUE
            /\ (policyCall.classification = "Excellent"
                /\ ~settings.explainExcellent) =>
                    policyCall.result = overThreshold
            /\ (policyCall.classification = "Opening"
                /\ settings.explainOpening) => policyCall.result = TRUE
            /\ (policyCall.classification = "Opening"
                /\ ~settings.explainOpening) =>
                    policyCall.result = overThreshold

\* an Excellent move is explained although explainExcellent is disabled,
\* because its evaluation change reaches the threshold
C8_Witness ==
    /\ policyCall.done
    /\ policyCall.classification = "Excellent"
    /\ ~settings.explainExcellent
    /\ settings.minEvalChange > 0
    /\ Abs(policyCall.evalChange) >= settings.minEvalChange
    /\ policyCall.result = TRUE

-----------------------------------------------------------------------------
(* Properties of parseResponse, checked under SpecParse *)

\* the structured path of parseResponse failed for the parsed reply
StructuredPathFailed ==
    \/ parseCall.content.json # "object"
    \/ parseCall.content.explanation.t \notin {"string", "array"}

\* C9: parseResponse never raises; its result carries the request's move
\* number and UCI move; when the structured path fails the result is the raw
\* text truncated to maxLength with empty themes and a rationale naming the
\* request's classification; in all cases the explanation has at most
\* maxLength characters.
C9_ParseNeverRaisesAndBounded ==
    parseCall.done =>
        LET r == parseCall.result.value
        IN  /\ ~parseCall.result.threw
            /\ r.moveNumber = parseCall.request.moveNumber
            /\ r.uciMove = parseCall.request.uciMove
            /\ StructuredPathFailed =>
                  /\ r.explanation.src = "content"
                  /\ r.explanation.len =
                        Min(parseCall.content.len, settings.maxLength)
                  /\ r.themes = "empty"
                  /\ r.classificationReason =
                        [kind |-> "classified as",
                         classification |->
                            parseCall.request.classification]
            /\ TextLength(r.explanation) <= settings.maxLength

-----------------------------------------------------------------------------
(* Order, pauses and accumulation in batchExplainMoves, checked under Spec *)

\* the 1-based index of the request an explanation belongs to
RequestIndexOf(explanation) ==
    CHOOSE k \in 1..Len(requests) :
        requests[k].moveNumber = explanation.moveNumber

\* the 0-based number of the window request k belongs to
WindowNumberOf(k) == (k - 1) \div concurrency

IsPrefixOf(p, q) ==
    /\ Len(p) <= Len(q)
    /\ \A j \in 1..Len(p) : p[j] = q[j]

CeilDiv(n, c) == (n + c - 1) \div c

\* the requests of the current window resolved in an order that differs from
\* the order of the requests, two of them successfully
ResolvedOutOfOrder ==
    \E a, b \in 1..Len(settleOrder) :
        /\ a < b
        /\ settleOrder[a] > settleOrder[b]
        /\ outcome[settleOrder[a]].ok
        /\ outcome[settleOrder[b]].ok

\* C15: in the result list every explanation of a request of window w comes
\* before every explanation of a request of a later window, for every order
\* in which the remote calls complete.
C15_OrderAcrossWindows ==
    \A j1, j2 \in 1..Len(results) :
        WindowNumberOf(RequestIndexOf(results[j1]))
            < WindowNumberOf(RequestIndexOf(results[j2]))
        => j1 < j2

\* a finished run whose result holds explanations of two windows, the calls
\* of the last window having resolved out of order
C15_Witness ==
    /\ pc = "done"
    /\ concurrency >= 2
    /\ \E j1, j2 \in 1..Len(results) :
          WindowNumberOf(RequestIndexOf(results[j1]))
              # WindowNumberOf(RequestIndexOf(results[j2]))
    /\ ResolvedOutOfOrder

\* C16 (state part): a finished run over n >= 1 requests has paused
\* ceil(n/c) - 1 times; while the run pauses no call is in flight, the
\* callbacks of the window have all been issued, a request remains and no
\* call of the next window has been issued.
C16_PauseState ==
    /\ (pc = "done" /\ Len(requests) >= 1) =>
          pauses = CeilDiv(Len(requests), concurrency) - 1
    /\ (pc = "done" /\ Len(requests) <= concurrency) => pauses = 0
    /\ pc = "pause" =>
          /\ InFlight = {}
          /\ Len(snapshots) = i + concurrency
          /\ i + concurrency < Len(requests)
          /\ \A k \in 1..Len(requests) :
                k > i + concurrency => calls[k] = "idle"

\* C16 (step part): a pause starts in the step that issues the callbacks of
\* a window after which a request remains, and in no other step; the step
\* that ends a pause starts the calls of the next window.
C16_PauseStep ==
    /\ pauses' # pauses =>
          /\ pauses' = pauses + 1
          /\ pc = "await" /\ pc' = "pause"
          /\ Len(snapshots') = i + concurrency
          /\ i + concurrency < Len(requests)
    /\ (pc = "await" /\ pc' = "done") => pauses' = pauses
    /\ (pc = "pause" /\ pc' # "pause") =>
          /\ pc' = "await"
          /\ i' = i + concurrency
          /\ calls'[i' + 1] = "fetching"

\* C16: batchExplainMoves pauses after a window exactly when a request
\* remains after it: ceil(n/c) - 1 pauses, each after the callbacks of a
\* window and before the first call of the next, none after the last window.
C16_PausesBetweenWindows == [](C16_PauseState) /\ [][C16_PauseStep]_vars

\* a finished run of three full windows or more: it paused after each but
\* the last
C16_Witness ==
    /\ pc = "done"
    /\ pauses >= 2
    /\ Len(requests) % concurrency = 0
    /\ pauses = (Len(requests) \div concurrency) - 1

\* C18 (state part): the error list of each snapshot extends the error list
\* of every earlier snapshot.
C18_SnapshotErrorsGrow ==
    \A j1, j2 \in 1..Len(snapshots) :
        j1 <= j2 => IsPrefixOf(snapshots[j1].errors, snapshots[j2].errors)

\* C18 (step part): no step removes or replaces an entry of the result list
\* or of the error list.
C18_AppendOnlyStep ==
    /\ IsPrefixOf(results, results')
    /\ IsPrefixOf(errors, errors')

\* C18: within one run the result list and the error list are append-only.
C18_AppendOnly == [](C18_SnapshotErrorsGrow) /\ [][C18_AppendOnlyStep]_vars

\* a finished run in which a request failed in a window after one whose
\* explanation had been recorded, and the snapshots saw the error list grow
C18_Witness ==
    /\ pc = "done"
    /\ Len(errors) >= 2
    /\ \E j \in 1..Len(results), k \in 1..Len(requests) :
          /\ calls[k] = "settled" /\ ~outcome[k].ok
          /\ WindowNumberOf(RequestIndexOf(results[j])) < WindowNumberOf(k)
    /\ \E j1, j2 \in 1..Len(snapshots) :
          j1 < j2 /\ Len(snapshots[j1].errors) < Len(snapshots[j2].errors)

\* C20: the result list is a subsequence of the request list in request
\* order (so its move numbers are strictly ascending), also inside a window
\* and for every order in which the calls of a window complete.
C20_RequestOrderKept ==
    \A j1, j2 \in 1..Len(results) :
        j1 < j2 =>
            /\ RequestIndexOf(results[j1]) < RequestIndexOf(results[j2])
            /\ results[j1].moveNumber < results[j2].moveNumber

\* the explanations of two requests of one window that resolved in reverse
\* order have been recorded
C20_Witness ==
    /\ pc = "done"
    /\ ResolvedOutOfOrder
    /\ \E j1, j2 \in 1..Len(results) :
          /\ j1 < j2
          /\ WindowNumberOf(RequestIndexOf(results[j1]))
                = WindowNumberOf(RequestIndexOf(results[j2]))
          /\ \E a, b \in 1..Len(settleOrder) :
                /\ a < b
                /\ settleOrder[a] = RequestIndexOf(results[j2])
                /\ settleOrder[b] = RequestIndexOf(results[j1])

-----------------------------------------------------------------------------
(* Properties of useGameExplanations, checked under SpecHook *)

\* the step is an invocation of generateExplanations
InvokeStep == invocation'.count = invocation.count + 1

\* the step in which run r ends: its finally block has run
RunEnds(r) ==
    /\ runs[r].status \in {"await", "rejected"}
    /\ runs'[r].status \in {"resolved", "threw"}

\* C11: an invocation with an evaluation and a game present, no run in
\* flight and no API key (neither argument nor environment) sets the error
\* at once and starts nothing: isGenerating stays false, progress stays
\* null, no remote call is issued and the stored explanations are unchanged.
C11_MissingKeyStep ==
    (/\ InvokeStep
     /\ gameEvalAtom.defined
     /\ game.pgn # "empty"
     /\ RunsInFlight = {}
     /\ ~invocation'.apiKey
     /\ ~envKey)
    => /\ error' = KeyNotFoundMessage
       /\ ~isGenerating /\ ~isGenerating'
       /\ progress = NoProgress /\ progress' = NoProgress
       /\ invocation'.issued = 0
       /\ runs' = runs
       /\ gameExplanationsAtom' = gameExplanationsAtom

C11_MissingKeyReported == [][C11_MissingKeyStep]_vars

\* C12: the step that ends a started run leaves isGenerating false and
\* progress null; when explainGame threw, error is the one message and the
\* stored explanations are unchanged; when it resolved, the stored
\* explanations are the run's result and error is null.
C12_RunEndStep ==
    \A r \in 1..Len(runs) :
        RunEnds(r) =>
            /\ ~isGenerating'
            /\ progress' = NoProgress
            /\ runs'[r].status = "threw" =>
                  /\ error' = ThrownMessage
                  /\ gameExplanationsAtom' = gameExplanationsAtom
            /\ runs'[r].status = "resolved" =>
                  /\ settled'.run = r
                  /\ gameExplanationsAtom' = settled'.value
                  /\ error' = NoError

C12_RunAlwaysCleansUp == [][C12_RunEndStep]_vars

\* C13: at most one batch run is in flight at any time.
C13_AtMostOneRunInFlight == Cardinality(RunsInFlight) <= 1

\* C14: the stored explanations are either undefined or the result of a run
\* started on the current game.
C14_NoExplanationsOfPreviousGame ==
    gameExplanationsAtom.defined => gameExplanationsAtom.gameId = game.id

\* C19: when a run resolves on a game of which explanations are stored, the
\* stored explanations become exactly the entries the run produced: the
\* entries of the earlier run are not kept.
C19_ReplaceStep ==
    \A r \in 1..Len(runs) :
        (/\ RunEnds(r)
         /\ runs'[r].status = "resolved"
         /\ gameExplanationsAtom.defined
         /\ gameExplanationsAtom.gameId = runs[r].game)
        => /\ settled'.run = r
           /\ DOMAIN gameExplanationsAtom'.explanations =
                 DOMAIN settled'.value.explanations
           /\ \A m \in DOMAIN gameExplanationsAtom'.explanations :
                 gameExplanationsAtom'.explanations[m] =
                     settled'.value.explanations[m]
           /\ gameExplanationsAtom'.gameId = runs[r].game

C19_RegenerationReplaces == [][C19_ReplaceStep]_vars

\* a second run on the same game has resolved; a move the first run had
\* explained failed in it and has no entry any more
C19_Witness ==
    /\ settled.status = "resolved"
    /\ settled.replaced.defined
    /\ settled.replaced.gameId = settled.value.gameId
    /\ gameExplanationsAtom = settled.value
    /\ game.id = settled.value.gameId
    /\ \E m \in DOMAIN settled.replaced.explanations :
          /\ m \notin DOMAIN settled.value.explanations
          /\ m \notin DOMAIN gameExplanationsAtom.explanations
    /\ DOMAIN gameExplanationsAtom.explanations # {}

-----------------------------------------------------------------------------
(* Progress snapshots of batchExplainMoves, checked under Spec *)

\* the number of successful explanations counted up to snapshot j
SuccessesCounted(j) ==
    Cardinality({l \in 1..j : snapshots[l].current.defined})

\* C21: in every progress snapshot the number of entries of the error list
\* is at most completed and equals completed minus the number of successful
\* explanations counted so far.
C21_SnapshotErrorsMatchCompleted ==
    \A j \in 1..Len(snapshots) :
        /\ Len(snapshots[j].errors) <= snapshots[j].completed
        /\ Len(snapshots[j].errors) =
              snapshots[j].completed - SuccessesCounted(j)

-----------------------------------------------------------------------------
(* ExplainButton, checked under SpecHook *)

\* C22: in every state in which an evaluation exists for the current game
\* ExplainButton renders its button; in particular while a run is in flight
\* with nothing stored yet, and after a run that ended without a single
\* explanation.
C22_ButtonShownWhenEvaluated ==
    gameEvalAtom.defined => ExplainButtonRenders

-----------------------------------------------------------------------------
(* Properties of getExplanationStats, checked under SpecGame *)

\* C23: movesToExplain of getExplanationStats equals the number of requests
\* explainGame built for the same trace and the total of every progress
\* snapshot of that run; totalMoves is the number of positions minus one.
C23_StatsMatchRequests ==
    stats.defined =>
        /\ stats.movesToExplain = Len(requests)
        /\ \A j \in 1..Len(snapshots) :
              snapshots[j].total = stats.movesToExplain
        /\ stats.totalMoves = Len(gameEval) - 1

\* statistics of a game with explained moves, a move without classification
\* and a classified move the policy rejects, whose run reported progress
C23_Witness ==
    /\ stats.defined
    /\ stats.movesToExplain >= 2
    /\ stats.movesToExplain < stats.totalMoves
    /\ Len(snapshots) = stats.movesToExplain
    /\ \E m \in 1..(Len(gameEval) - 1) :
          At(gameEval, m).moveClassification = NoClassification
    /\ \E m \in 1..(Len(gameEval) - 1) :
          /\ At(gameEval, m).moveClassification # NoClassification
          /\ m \notin AcceptedPlies

-----------------------------------------------------------------------------
(* Termination of batchExplainMoves, checked under SpecLive *)

\* C24 (state part): the run returns after ceil(n/c) windows, the loop
\* variable having advanced by c once per window; with an empty request list
\* it returns an empty sequence without remote call, callback or pause.
C24_Returned ==
    /\ pc = "done" =>
          /\ i = concurrency * CeilDiv(Len(requests), concurrency)
          /\ Len(snapshots) = Len(requests)
          /\ \A k \in 1..Len(requests) : explainCalls[k] = 1
    /\ (pc = "done" /\ Len(requests) = 0) =>
          /\ results = <<>>
          /\ errors = <<>>
          /\ snapshots = <<>>
          /\ pauses = 0
          /\ DOMAIN httpCount = {}

\* C24: when every remote call eventually resolves or fails,
\* batchExplainMoves eventually returns, after exactly ceil(n/c) windows.
C24_Terminates == <>(pc = "done") /\ [](C24_Returned)

\* a run of several windows, the last one not full, has returned
C24_Witness ==
    /\ pc = "done"
    /\ Len(requests) > concurrency
    /\ Len(requests) % concurrency # 0
    /\ i > Len(requests)
    /\ CeilDiv(Len(requests), concurrency) >= 2

=============================================================================
